---- MODULE Spec2Model ----
(***************************************************************************)
(* A model of data_diff/diff_tables.py: TableSegment (key ranges,           *)
(* checkpoints, the four queries), diff_sets, and TableDiffer (diff_tables, *)
(* _bisect_and_diff_tables, _diff_tables, _thread_map, _threaded_call).     *)
(*                                                                         *)
(* A table is a set of rows <<key, value>>.  A key may occur in several    *)
(* rows (the key column is not forced to be unique by the code).           *)
(* The tree of _diff_tables tasks is the function tasks: a task is named   *)
(* by its path of child indices, <<>> being the top-level call.            *)
(***************************************************************************)
EXTENDS Integers, Sequences, FiniteSets, TLC

VARIABLES
    table1, table2,          \* the rows of the two tables (fixed during a run)
    bisection_factor,        \* TableDiffer.bisection_factor
    bisection_threshold,     \* TableDiffer.bisection_threshold
    threaded,                \* TableDiffer.threaded
    pc,                      \* where the call of diff_tables and its consumer are
    tasks,                   \* path -> state of that _bisect/_diff_tables task
    stats,                   \* TableDiffer.stats
    nqueries,                \* queries the database has executed, by kind
    fn, seg, arg, ret        \* one call of a TableSegment method: name, self, argument, result

vars == <<table1, table2, bisection_factor, bisection_threshold, threaded,
          pc, tasks, stats, nqueries, fn, seg, arg, ret>>

diffVars == <<table1, table2, bisection_factor, bisection_threshold, threaded,
              pc, tasks, stats, nqueries>>

callVars == <<fn, seg, arg, ret>>

----------------------------------------------------------------------------
(* Bounds of the model *)

MaxKey == 4
MaxFactor == 2
MaxThreshold == 3
MaxPos == 4
MaxCount == 3
MaxCheckpoints == 2

Keys == 0..MaxKey
Vals == {"a", "b"}

----------------------------------------------------------------------------
(* Helpers *)

MinOf(S) == CHOOSE x \in S : \A y \in S : x <= y
MaxOf(S) == CHOOSE x \in S : \A y \in S : y <= x
PyMax(a, b) == IF a >= b THEN a ELSE b
PyMin(a, b) == IF a <= b THEN a ELSE b

RECURSIVE Flatten(_)
Flatten(ss) == IF ss = <<>> THEN <<>> ELSE Head(ss) \o Flatten(Tail(ss))

\* The elements of a set of integers in ascending order.
RECURSIVE SortedSeq(_)
SortedSeq(S) == IF S = {} THEN <<>> ELSE <<MinOf(S)>> \o SortedSeq(S \ {MinOf(S)})

\* list.sort() on a list of integers.
ListSort(s) == SortSeq(s, LAMBDA x, y : x < y)

----------------------------------------------------------------------------
(* split_space and TableSegment *)

\* list(range(start, end, step)) for step # 0.
RangeLen(start, end, step) ==
    IF step > 0
    THEN IF end > start THEN (end - start + step - 1) \div step ELSE 0
    ELSE IF start > end THEN (start - end - step - 1) \div (0 - step) ELSE 0

PyRange(start, end, step) ==
    [i \in 1..RangeLen(start, end, step) |-> start + (i - 1) * step]

\* s[1 : count + 1] of a Python list, count >= 0.
SliceFrom1(s, count) ==
    IF Len(s) <= 1 THEN <<>> ELSE SubSeq(s, 2, PyMin(count + 1, Len(s)))

SplitStep(start, end, count) == ((end - start) + 1) \div (count + 1)

\* split_space: range() raises ValueError when the step is 0.
SplitSpaceDropPlusOne(start, end, count) ==
    LET step == (end - start) \div (count + 1)
    IN  IF step = 0 THEN [ok |-> FALSE, val |-> <<>>]
        ELSE [ok |-> TRUE, val |-> SliceFrom1(PyRange(start, end, step), count)]

split_space(start, end, count) ==
    LET step == SplitStep(start, end, count)
    IN  IF step = 0 THEN [ok |-> FALSE, val |-> <<>>]
        ELSE [ok |-> TRUE, val |-> SliceFrom1(PyRange(start, end, step), count)]

\* TableSegment.choose_checkpoints (the segment is bounded: keys are integers here).
choose_checkpoints(s, count) == split_space(s.start_key, s.end_key, count)

\* "if self.start_key and self.end_key": the truth value of an integer.
Truthy(x) == x # 0

\* TableSegment.new: a copy with the given fields replaced.
SegmentNew(s, start, end) == [s EXCEPT !.start_key = start, !.end_key = end]

\* TableSegment.segment_by_checkpoints: ok = FALSE is the AssertionError.
segment_by_checkpoints(s, checkpoints) ==
    LET checked == Truthy(s.start_key) /\ Truthy(s.end_key)
        inside  == \A i \in 1..Len(checkpoints) :
                       s.start_key <= checkpoints[i] /\ checkpoints[i] < s.end_key
        sorted    == ListSort(checkpoints)
        positions == <<s.start_key>> \o sorted \o <<s.end_key>>
    IN  IF checked /\ ~inside
        THEN [ok |-> FALSE, val |-> <<>>]
        ELSE [ok |-> TRUE,
              val |-> [i \in 1..(Len(positions) - 1) |->
                          SegmentNew(s, positions[i], positions[i + 1])]]

\* The rows a segment's WHERE clause selects (_make_key_range, _make_select).
SegmentRowsInclusiveEnd(table, start, end) ==
    {r \in table : start <= r[1] /\ r[1] <= end}

SegmentRows(table, start, end) ==
    {r \in table : start <= r[1] /\ r[1] < end}

----------------------------------------------------------------------------
(* The database: what the three queries of a segment return *)

\* Checksum(columns): a value that is equal on two segments exactly when their
\* row sets are equal, and NULL (the empty set here) on a segment with no rows.
Checksum(rows) == rows

\* TableSegment.query_key_range on a segment with no key bounds:
\* ok = FALSE is ValueError("Table appears to be empty").
QueryKeyRangeNullAsZero(table) ==
    IF table = {} THEN [ok |-> TRUE, val |-> <<0, 0>>]
    ELSE [ok |-> TRUE, val |-> <<MinOf({r[1] : r \in table}), MaxOf({r[1] : r \in table})>>]

query_key_range(table) ==
    IF table = {} THEN [ok |-> FALSE, val |-> <<>>]
    ELSE [ok |-> TRUE, val |-> <<MinOf({r[1] : r \in table}), MaxOf({r[1] : r \in table})>>]

\* TableSegment.count_and_checksum: (count or 0, checksum).
count_and_checksum(table, start, end) ==
    LET rows == SegmentRows(table, start, end)
    IN  <<Cardinality(rows), Checksum(rows)>>

\* TableSegment.get_values
get_values(table, start, end) == SegmentRows(table, start, end)

----------------------------------------------------------------------------
(* diff_sets *)

ValOrder == <<"a", "b">>

\* Iteration over the rows of one key in a Python set: some fixed order.
RowsOfKey(S, k) ==
    LET vs == SelectSeq(ValOrder, LAMBDA v : <<k, v>> \in S)
    IN  [i \in 1..Len(vs) |-> <<k, vs[i]>>]

Signed(sign, rows) == [i \in 1..Len(rows) |-> <<sign, rows[i]>>]

\* d[key]: the "+" rows of the key, then its "-" rows.
DiffGroup(plus, minus, k) ==
    Signed("+", RowsOfKey(plus, k)) \o Signed("-", RowsOfKey(minus, k))

DiffSetsUngrouped(a, b) ==
    LET plus  == a \ b
        minus == b \ a
        pk    == SortedSeq({r[1] : r \in plus})
        mk    == SortedSeq({r[1] : r \in minus})
    IN  Flatten([i \in 1..Len(pk) |-> Signed("+", RowsOfKey(plus, pk[i]))])
        \o Flatten([i \in 1..Len(mk) |-> Signed("-", RowsOfKey(minus, mk[i]))])

diff_sets(a, b) ==
    LET plus  == a \ b
        minus == b \ a
        ks    == SortedSeq({r[1] : r \in plus \cup minus})
    IN  Flatten([i \in 1..Len(ks) |-> DiffGroup(plus, minus, ks[i])])

----------------------------------------------------------------------------
(* TableDiffer: the executor *)

EmptySlots == <<<<>>, <<>>>>

\* Executor.map / map: the result of input i is the i-th output.
PoolStoreCompletionOrder(slots, i, r) ==
    IF slots[1] = <<>> THEN [slots EXCEPT ![1] = <<r>>] ELSE [slots EXCEPT ![2] = <<r>>]

PoolStore(slots, i, r) == [slots EXCEPT ![i] = <<r>>]

\* The orders in which the two tasks of a _threaded_call can complete: any
\* order on a thread pool, input order with the lazy map.
CompletionOrders == IF threaded THEN {<<1, 2>>, <<2, 1>>} ELSE {<<1, 2>>}

\* _threaded_call(func, [table1, table2]): the list of results, r1 and r2 being
\* what func returns on table1 and on table2.
ThreadedCall(r1, r2) ==
    LET R(i) == IF i = 1 THEN r1 ELSE r2
    IN  {PoolStore(PoolStore(EmptySlots, o[1], R(o[1])), o[2], R(o[2])) :
            o \in CompletionOrders}

Res(t, i) == t.slots[i][1]

NewTask(start, end, phase) ==
    [start_key |-> start, end_key |-> end, phase |-> phase,
     slots |-> EmptySlots, values |-> EmptySlots, bisect |-> FALSE, max_rows |-> 0,
     tmp |-> 0, n |-> 0, cursor |-> 0, out |-> <<>>]

Parent(p) == SubSeq(p, 1, Len(p) - 1)

\* _thread_map: with threaded, every submitted task may run at any time; without,
\* map() is lazy and runs input i when the consumer asks for the i-th result.
RECURSIVE Runnable(_)
Runnable(p) ==
    IF threaded \/ p = <<>> THEN TRUE
    ELSE tasks[Parent(p)].cursor = p[Len(p)] /\ Runnable(Parent(p))

----------------------------------------------------------------------------
(* TableDiffer: diff_tables, _bisect_and_diff_tables, _diff_tables *)

\* The two checks at the entry of diff_tables.
ConfigErrorStrict(factor, threshold) == factor > threshold \/ factor < 2

ConfigError(factor, threshold) == factor >= threshold \/ factor < 2

\* "if max_rows < self.bisection_threshold"
IsLeafInclusive(max_rows) == max_rows <= bisection_threshold

IsLeaf(max_rows) == max_rows < bisection_threshold

\* max_rows of the recursive call: max(count1, count2).
ChildMaxRows(count1, count2) == PyMax(count1, count2)

\* The child segments of a bisection: both tables are split by the same checkpoints.
Checkpoints(t) == choose_checkpoints(t, bisection_factor - 1)
Segmented(t) == segment_by_checkpoints(t, Checkpoints(t).val)
BisectRaises(t, max_rows) ==
    IF IsLeaf(max_rows) THEN FALSE
    ELSE IF ~Checkpoints(t).ok THEN TRUE ELSE ~Segmented(t).ok

\* _bisect_and_diff_tables up to its get_values call or its fan-out.
Bisect(ts, p, max_rows) ==
    LET t == ts[p]
    IN  IF IsLeaf(max_rows)
        THEN [ts EXCEPT ![p] = [t EXCEPT !.phase = "values", !.bisect = TRUE,
                                         !.max_rows = max_rows]]
        ELSE LET segs == Segmented(t).val
                 kids == {p \o <<i>> : i \in 1..Len(segs)}
             IN  [q \in DOMAIN ts \cup kids |->
                    IF q = p
                    THEN [t EXCEPT !.phase = "merge", !.bisect = TRUE,
                                   !.max_rows = max_rows, !.n = Len(segs), !.cursor = 1]
                    ELSE IF q \in kids
                    THEN NewTask(segs[q[Len(q)]].start_key, segs[q[Len(q)]].end_key,
                                 "checksum")
                    ELSE ts[q]]

\* A task returns: its generator is exhausted.
Return(ts, p, events) == [ts EXCEPT ![p].phase = "done", ![p].out = events]

StatsGet == IF "table1_count" \in DOMAIN stats THEN stats["table1_count"] ELSE 0

\* diff_tables(table1, table2): the checks of the parameters, the two key-range
\* queries (the first ValueError among the results, in input order, is raised),
\* and the generator that is returned, not yet started.
DiffTables ==
    /\ pc = "call"
    /\ IF ConfigError(bisection_factor, bisection_threshold)
       THEN pc' = "error_config" /\ tasks' = tasks /\ nqueries' = nqueries
       ELSE \E slots \in ThreadedCall(query_key_range(table1), query_key_range(table2)) :
              LET r1 == slots[1][1]
                  r2 == slots[2][1]
              IN  /\ nqueries' = [nqueries EXCEPT !.key_range =
                                     @ + (IF ~threaded /\ ~r1.ok THEN 1 ELSE 2)]
                  /\ IF ~r1.ok \/ ~r2.ok
                     THEN pc' = "error_empty" /\ tasks' = tasks
                     ELSE LET start == PyMin(r1.val[1], r2.val[1])
                              end   == PyMax(r1.val[2], r2.val[2]) + 1
                          IN  /\ pc' = "stream"
                              /\ tasks' = (<<>> :> NewTask(start, end, "lazy"))
    /\ UNCHANGED <<table1, table2, bisection_factor, bisection_threshold, threaded, stats>>
    /\ UNCHANGED callVars

\* The consumer asks for the first event: _bisect_and_diff_tables(table1, table2)
\* starts with max_rows = end_key - start_key.
StartStream ==
    /\ pc = "stream"
    /\ tasks[<<>>].phase = "lazy"
    /\ LET t == tasks[<<>>]
           max_rows == t.end_key - t.start_key
       IN  IF BisectRaises(t, max_rows)
           THEN pc' = "error_internal" /\ tasks' = tasks
           ELSE pc' = pc /\ tasks' = Bisect(tasks, <<>>, max_rows)
    /\ UNCHANGED <<table1, table2, bisection_factor, bisection_threshold, threaded,
                   stats, nqueries>>
    /\ UNCHANGED callVars

Count1(t) == Res(t, 1)[1]
Count2(t) == Res(t, 2)[1]
Checksum1(t) == Res(t, 1)[2]
Checksum2(t) == Res(t, 2)[2]

\* _diff_tables from "if checksum1 != checksum2" on; ts[p] holds the counts.
Compare(ts, p) ==
    LET t == ts[p]
        max_rows == ChildMaxRows(Count1(t), Count2(t))
    IN  IF Checksum1(t) # Checksum2(t)
        THEN IF BisectRaises(t, max_rows)
             THEN pc' = "error_internal" /\ tasks' = ts
             ELSE pc' = pc /\ tasks' = Bisect(ts, p, max_rows)
        ELSE pc' = pc /\ tasks' = Return(ts, p, <<>>)

\* _diff_tables(t1, t2, level): count_and_checksum on both sides; nothing to do
\* when both counts are 0; at level 1 the read of stats["table1_count"];
\* otherwise the comparison of the checksums.
DiffSegment(p) ==
    /\ pc = "stream"
    /\ p \in DOMAIN tasks
    /\ tasks[p].phase = "checksum"
    /\ Runnable(p)
    /\ \E slots \in ThreadedCall(
              count_and_checksum(table1, tasks[p].start_key, tasks[p].end_key),
              count_and_checksum(table2, tasks[p].start_key, tasks[p].end_key)) :
         LET ts == [tasks EXCEPT ![p].slots = slots]
             t  == ts[p]
         IN  IF Count1(t) = 0 /\ Count2(t) = 0
             THEN pc' = pc /\ tasks' = Return(ts, p, <<>>)
             ELSE IF Len(p) = 1
             THEN pc' = pc /\ tasks' = [ts EXCEPT ![p].phase = "stat_write",
                                                  ![p].tmp = StatsGet]
             ELSE Compare(ts, p)
    /\ nqueries' = [nqueries EXCEPT !.checksum = @ + 2]
    /\ UNCHANGED <<table1, table2, bisection_factor, bisection_threshold, threaded, stats>>
    /\ UNCHANGED callVars

\* _diff_tables at level 1: self.stats["table1_count"] = (the value read) + count1,
\* then the comparison of the checksums.
StatsWrite(p) ==
    /\ pc = "stream"
    /\ p \in DOMAIN tasks
    /\ tasks[p].phase = "stat_write"
    /\ stats' = ("table1_count" :> (tasks[p].tmp + Count1(tasks[p])))
    /\ Compare(tasks, p)
    /\ UNCHANGED <<table1, table2, bisection_factor, bisection_threshold, threaded,
                   nqueries>>
    /\ UNCHANGED callVars

\* The leaf of _bisect_and_diff_tables: get_values on both sides, the rows are
\* compared locally and the events are yielded.
Leaf(p) ==
    /\ pc = "stream"
    /\ p \in DOMAIN tasks
    /\ tasks[p].phase = "values"
    /\ Runnable(p)
    /\ \E slots \in ThreadedCall(
              get_values(table1, tasks[p].start_key, tasks[p].end_key),
              get_values(table2, tasks[p].start_key, tasks[p].end_key)) :
         tasks' = Return([tasks EXCEPT ![p].values = slots], p,
                         diff_sets(slots[1][1], slots[2][1]))
    /\ pc' = IF p = <<>> THEN "done" ELSE pc
    /\ nqueries' = [nqueries EXCEPT !.values = @ + 2]
    /\ UNCHANGED <<table1, table2, bisection_factor, bisection_threshold, threaded, stats>>
    /\ UNCHANGED callVars

\* "for res in self._thread_map(list, diff_iters): yield from res": the next
\* child's list, in child order, once that child has returned.
Merge(p) ==
    /\ pc = "stream"
    /\ p \in DOMAIN tasks
    /\ tasks[p].phase = "merge"
    /\ LET t == tasks[p]
           c == p \o <<t.cursor>>
       IN  /\ tasks[c].phase = "done"
           /\ tasks' = [tasks EXCEPT ![p].out = t.out \o tasks[c].out,
                                     ![p].cursor = t.cursor + 1,
                                     ![p].phase = IF t.cursor = t.n THEN "done" ELSE "merge"]
           /\ pc' = IF p = <<>> /\ t.cursor = t.n THEN "done" ELSE pc
    /\ UNCHANGED <<table1, table2, bisection_factor, bisection_threshold, threaded,
                   stats, nqueries>>
    /\ UNCHANGED callVars

\* The events the consumer of diff_tables has received.
Stream == IF <<>> \in DOMAIN tasks THEN tasks[<<>>].out ELSE <<>>

----------------------------------------------------------------------------
(* The inputs *)

Interval(lo, hi) == {<<k, "a">> : k \in lo..hi}
SetCell(t, k, c) == {r \in t : r[1] # k} \cup {<<k, v>> : v \in c}

\* Right-hand tables: a run of consecutive keys from the least key or up to the
\* greatest one (or no row).
Tables2 ==
    {Interval(0, hi) : hi \in Keys} \cup {Interval(lo, MaxKey) : lo \in Keys} \cup {{}}
\* Left-hand tables: such a run with the rows of one key replaced: removed,
\* changed, added, or two rows with the same key.
Tables1 == {SetCell(t, k, c) : t \in Tables2, k \in Keys, c \in SUBSET Vals}

DefaultSegment ==
    [database |-> "db", table_path |-> "t", key_column |-> "id",
     update_column |-> "ts", start_key |-> 0, end_key |-> 0]

Init ==
    /\ table1 \in Tables1
    /\ table2 \in Tables2
    /\ bisection_factor \in 1..MaxFactor
    /\ bisection_threshold \in 2..MaxThreshold
    /\ threaded \in BOOLEAN
    /\ pc = "call"
    /\ tasks = <<>>
    /\ stats = <<>>
    /\ nqueries = [key_range |-> 0, checksum |-> 0, values |-> 0]
    /\ fn = "none" /\ seg = DefaultSegment /\ arg = <<>> /\ ret = <<>>

Next ==
    \/ DiffTables
    \/ StartStream
    \/ \E p \in DOMAIN tasks : DiffSegment(p)
    \/ \E p \in DOMAIN tasks : StatsWrite(p)
    \/ \E p \in DOMAIN tasks : Leaf(p)
    \/ \E p \in DOMAIN tasks : Merge(p)

Spec == Init /\ [][Next]_vars

----------------------------------------------------------------------------
(* One call of choose_checkpoints or segment_by_checkpoints on a segment *)

Positions == 0..MaxPos
CheckpointLists == UNION {[1..n -> 0..(MaxPos + 1)] : n \in 0..MaxCheckpoints}

InitCall ==
    /\ table1 = {} /\ table2 = {}
    /\ bisection_factor = 2 /\ bisection_threshold = 3 /\ threaded = FALSE
    /\ pc = "idle"
    /\ tasks = <<>>
    /\ stats = <<>>
    /\ nqueries = [key_range |-> 0, checksum |-> 0, values |-> 0]
    /\ fn = "none"
    /\ seg \in {SegmentNew(DefaultSegment, s, e) : s \in Positions, e \in Positions}
    /\ seg.start_key < seg.end_key
    /\ arg \in [count : 0..MaxCount, checkpoints : CheckpointLists]
    /\ ret = <<>>

\* seg.choose_checkpoints(arg.count)
CallChooseCheckpoints ==
    /\ fn = "none"
    /\ fn' = "choose_checkpoints"
    /\ ret' = choose_checkpoints(seg, arg.count)
    /\ UNCHANGED <<seg, arg>>
    /\ UNCHANGED diffVars

\* seg.segment_by_checkpoints(arg.checkpoints): the list is sorted in place.
CallSegmentByCheckpoints ==
    /\ fn = "none"
    /\ fn' = "segment_by_checkpoints"
    /\ ret' = segment_by_checkpoints(seg, arg.checkpoints)
    /\ arg' = IF ret'.ok THEN [arg EXCEPT !.checkpoints = ListSort(@)] ELSE arg
    /\ UNCHANGED seg
    /\ UNCHANGED diffVars

NextCall == CallChooseCheckpoints \/ CallSegmentByCheckpoints

SpecCall == InitCall /\ [][NextCall]_vars

----------------------------------------------------------------------------
(* The same diff with threaded = False: _thread_map is map(), so the tasks run *)
(* one after the other, in input order, as plain recursion.                   *)

RECURSIVE SeqBisect(_, _, _), SeqDiffTables(_, _)
SeqBisect(start, end, max_rows) ==
    IF IsLeaf(max_rows)
    THEN diff_sets(get_values(table1, start, end), get_values(table2, start, end))
    ELSE LET t    == [start_key |-> start, end_key |-> end]
             segs == Segmented(t).val
         IN  Flatten([i \in 1..Len(segs) |->
                         SeqDiffTables(segs[i].start_key, segs[i].end_key)])
SeqDiffTables(start, end) ==
    LET r1 == count_and_checksum(table1, start, end)
        r2 == count_and_checksum(table2, start, end)
    IN  IF r1[1] = 0 /\ r2[1] = 0 THEN <<>>
        ELSE IF r1[2] # r2[2] THEN SeqBisect(start, end, ChildMaxRows(r1[1], r2[1]))
        ELSE <<>>

SeqDiff ==
    LET r1    == query_key_range(table1)
        r2    == query_key_range(table2)
        start == PyMin(r1.val[1], r2.val[1])
        end   == PyMax(r1.val[2], r2.val[2]) + 1
    IN  SeqBisect(start, end, end - start)

----------------------------------------------------------------------------
(* Properties *)

UniqueKeys(table) == \A r1 \in table, r2 \in table : r1[1] = r2[1] => r1 = r2
LegalConfig == 2 <= bisection_factor /\ bisection_factor < bisection_threshold
Occurrences(s, e) == Cardinality({i \in 1..Len(s) : s[i] = e})
EventKey(e) == e[2][1]
IsPrefix(s, t) == Len(s) <= Len(t) /\ SubSeq(t, 1, Len(s)) = s
Bisected == <<>> \in DOMAIN tasks /\ tasks[<<>>].n > 0
RowsIn(table, t) == Cardinality({r \in table : t.start_key <= r[1] /\ r[1] < t.end_key})
Counted(p) == p # <<>> /\ tasks[p].phase # "checksum"
Width(t) == t.end_key - t.start_key

\* C1: for two non-empty tables with unique integer keys and a legal
\* (bisection_factor, bisection_threshold), the fully consumed stream holds exactly
\* one ("+", r) for every row r of table1 not in table2, exactly one ("-", r) for
\* every row r of table2 not in table1, and nothing else.
C1_ExactDiff ==
    (pc = "done" /\ UniqueKeys(table1) /\ UniqueKeys(table2)) =>
        /\ \A r \in table1 \ table2 : Occurrences(Stream, <<"+", r>>) = 1
        /\ \A r \in table2 \ table1 : Occurrences(Stream, <<"-", r>>) = 1
        /\ \A i \in 1..Len(Stream) :
              \/ Stream[i][1] = "+" /\ Stream[i][2] \in table1 \ table2
              \/ Stream[i][1] = "-" /\ Stream[i][2] \in table2 \ table1
        /\ Len(Stream) = Cardinality((table1 \ table2) \cup (table2 \ table1))

C1_Witness ==
    /\ pc = "done" /\ UniqueKeys(table1) /\ UniqueKeys(table2)
    /\ Bisected
    /\ \E p \in DOMAIN tasks : Len(p) = 2
    /\ \E i, j \in 1..Len(Stream) : Stream[i][1] = "+" /\ Stream[j][1] = "-"
    /\ Len(Stream) >= 3

\* C2: in the stream, the events of one key are adjacent, and every "+" event of
\* the key comes before every "-" event of the key; this holds of the whole merged
\* stream, at every moment of its emission.
C2_KeyGrouping ==
    \A i \in 1..Len(Stream), j \in 1..Len(Stream) :
        (i < j /\ EventKey(Stream[i]) = EventKey(Stream[j])) =>
            /\ \A m \in i..j : EventKey(Stream[m]) = EventKey(Stream[i])
            /\ ~(Stream[i][1] = "-" /\ Stream[j][1] = "+")

C2_Witness ==
    /\ pc = "done" /\ Bisected
    /\ Len(Stream) >= 3
    /\ \E i \in 1..(Len(Stream) - 1) :
          /\ EventKey(Stream[i]) = EventKey(Stream[i + 1])
          /\ Stream[i][1] = "+" /\ Stream[i + 1][1] = "-"
    /\ \E p \in DOMAIN tasks, q \in DOMAIN tasks :
          p # q /\ tasks[p].out # <<>> /\ tasks[q].out # <<>> /\ tasks[p].n = 0 /\ tasks[q].n = 0

\* C3: with threaded = True the events are emitted in the same sequence under
\* every scheduling of the tasks and every completion order of the queries, and
\* that sequence is the one emitted with threaded = False; at every moment the
\* events emitted so far are a prefix of it.
C3_Deterministic ==
    (pc \in {"stream", "done"}) =>
        /\ IsPrefix(Stream, SeqDiff)
        /\ pc = "done" => Stream = SeqDiff

C3_Witness ==
    /\ threaded /\ pc = "done" /\ Bisected
    /\ \E p \in DOMAIN tasks : Len(p) = 2
    /\ \E i, j \in 1..Len(Stream) : Stream[i][1] = "+" /\ Stream[j][1] = "-"
    /\ tasks[<<1>>].out # <<>> /\ tasks[<<2>>].out # <<>>

\* C4: when bisection_factor < 2 or bisection_factor >= bisection_threshold,
\* diff_tables fails with the configuration error before any query is executed and
\* without a stream or an event; with legal parameters it does not.
C4_ConfigError ==
    /\ (pc # "call" /\ ~LegalConfig) =>
          /\ pc = "error_config"
          /\ nqueries = [key_range |-> 0, checksum |-> 0, values |-> 0]
          /\ tasks = <<>> /\ Stream = <<>>
    /\ pc = "error_config" => ~LegalConfig

C4_Witness ==
    /\ pc = "error_config"
    /\ bisection_factor >= 2 /\ bisection_factor = bisection_threshold
    /\ table1 # {} /\ table2 # {}

\* C5: with legal parameters, when either table has no row, diff_tables fails
\* with "Table appears to be empty": no event is emitted and no count_and_checksum
\* or get_values query is executed.
C5_EmptyTable ==
    /\ (pc # "call" /\ LegalConfig /\ (table1 = {} \/ table2 = {})) =>
          /\ pc = "error_empty"
          /\ Stream = <<>>
          /\ nqueries.checksum = 0 /\ nqueries.values = 0
    /\ pc = "error_empty" => (table1 = {} \/ table2 = {})

C5_Witness ==
    /\ pc = "error_empty" /\ threaded
    /\ table1 # {} /\ table2 = {}
    /\ nqueries.key_range = 2

\* C6: after a fully consumed stream that bisected at least once, on a differ
\* whose stats were empty, stats["table1_count"] is the sum of the left-side
\* counts of all level-1 segments, under every interleaving of the level-1 tasks.
RECURSIVE SumCount1(_)
SumCount1(i) == IF i = 0 THEN 0 ELSE Count1(tasks[<<i>>]) + SumCount1(i - 1)
C6_StatsSum ==
    (pc = "done" /\ Bisected) => StatsGet = SumCount1(tasks[<<>>].n)

\* C7 as stated: the diff of two non-empty tables with unique keys terminates
\* (it never stops before the stream is consumed, never raises, and executes a
\* bounded number of queries), every recursive call is on a strictly narrower key
\* interval than its parent, and a child pair with one count 0 and the other not
\* takes the leaf path and does not fan out.
C7_Narrower ==
    \A p \in DOMAIN tasks :
        p # <<>> =>
            /\ tasks[Parent(p)].start_key <= tasks[p].start_key
            /\ tasks[p].end_key <= tasks[Parent(p)].end_key
            /\ Width(tasks[p]) < Width(tasks[Parent(p)])
            /\ Width(tasks[p]) >= 1
C7_Terminates ==
    /\ pc # "error_internal"
    /\ pc = "stream" => ENABLED Next
    /\ pc \in {"stream", "done"} =>
          nqueries.checksum + nqueries.values <= 8 * Width(tasks[<<>>])
OneSideEmpty(p) ==
    Counted(p) /\ ((Count1(tasks[p]) = 0) # (Count2(tasks[p]) = 0))
C7_Original ==
    (UniqueKeys(table1) /\ UniqueKeys(table2)) =>
        /\ C7_Narrower
        /\ C7_Terminates
        /\ \A p \in DOMAIN tasks : OneSideEmpty(p) => tasks[p].n = 0

\* C7, amended: ... and a child pair with one count 0 and the other not calls
\* _bisect_and_diff_tables with max_rows = the other count; it takes the leaf path
\* exactly when that count is below bisection_threshold and fans out otherwise.
C7_Termination ==
    (UniqueKeys(table1) /\ UniqueKeys(table2)) =>
        /\ C7_Narrower
        /\ C7_Terminates
        /\ \A p \in DOMAIN tasks :
              (OneSideEmpty(p) /\ tasks[p].phase # "stat_write") =>
                  /\ tasks[p].bisect
                  /\ tasks[p].max_rows = PyMax(Count1(tasks[p]), Count2(tasks[p]))
                  /\ (tasks[p].n = 0) <=> (tasks[p].max_rows < bisection_threshold)
                  /\ tasks[p].n = 0 => tasks[p].phase \in {"values", "done"}

C7_Witness ==
    /\ pc = "done" /\ UniqueKeys(table1) /\ UniqueKeys(table2)
    /\ \E p \in DOMAIN tasks :
          /\ OneSideEmpty(p) /\ tasks[p].n >= 2 /\ tasks[p].phase = "done"
    /\ \E p \in DOMAIN tasks :
          /\ OneSideEmpty(p) /\ tasks[p].n = 0 /\ tasks[p].phase = "done"

\* C8: for all table contents, at every call of _bisect_and_diff_tables max_rows
\* is at least the number of rows each side holds in the segment (the first call
\* included, where max_rows is end_key - start_key), and get_values is only
\* executed on segments where each side holds fewer than bisection_threshold rows.
C8_MaxRowsBound ==
    \A p \in DOMAIN tasks :
        tasks[p].bisect =>
            /\ RowsIn(table1, tasks[p]) <= tasks[p].max_rows
            /\ RowsIn(table2, tasks[p]) <= tasks[p].max_rows
            /\ tasks[p].n = 0 =>
                  /\ RowsIn(table1, tasks[p]) < bisection_threshold
                  /\ RowsIn(table2, tasks[p]) < bisection_threshold

Size(t) == t.end_key - t.start_key
\* The first n of start + step, start + 2 * step, ... that are below end.
FirstBelow(start, end, step, n) ==
    LET k == Cardinality({i \in 1..n : start + i * step < end})
    IN  [i \in 1..k |-> start + i * step]
StrictlyInside(t, cps) ==
    /\ \A i \in 1..Len(cps) : t.start_key < cps[i] /\ cps[i] < t.end_key
    /\ \A i \in 1..(Len(cps) - 1) : cps[i] < cps[i + 1]
    /\ Len(cps) <= arg.count
FloorStep == (Size(seg) + 1) \div (arg.count + 1)
CeilStep == (Size(seg) + 1 + arg.count) \div (arg.count + 1)

\* C9: for a bounded segment and n checkpoints in [start_key, end_key),
\* segment_by_checkpoints returns n + 1 children [start_key, c1), [c1, c2), ...,
\* [cn, end_key) over the sorted checkpoints: adjacent, covering every key of the
\* parent exactly once, inside the parent, all other fields the parent's; and a
\* checkpoint outside [start_key, end_key) is rejected, also when start_key is 0.
C9_Segments ==
    fn = "segment_by_checkpoints" =>
        LET cps == arg.checkpoints
            n   == Len(cps)
        IN  IF \A i \in 1..n : seg.start_key <= cps[i] /\ cps[i] < seg.end_key
            THEN /\ ret.ok
                 /\ Len(ret.val) = n + 1
                 /\ \A i \in 1..(n - 1) : cps[i] <= cps[i + 1]
                 /\ ret.val[1].start_key = seg.start_key
                 /\ ret.val[n + 1].end_key = seg.end_key
                 /\ \A i \in 1..n : ret.val[i].end_key = cps[i]
                                    /\ ret.val[i + 1].start_key = cps[i]
                 /\ \A k \in seg.start_key..(seg.end_key - 1) :
                       Cardinality({i \in 1..(n + 1) :
                           ret.val[i].start_key <= k /\ k < ret.val[i].end_key}) = 1
                 /\ \A i \in 1..(n + 1) :
                       /\ seg.start_key <= ret.val[i].start_key
                       /\ ret.val[i].end_key <= seg.end_key
                       /\ SegmentNew(ret.val[i], seg.start_key, seg.end_key) = seg
            ELSE ~ret.ok

\* C10 as stated: whenever choose_checkpoints(n), n >= 1, returns a list, it is the
\* first n of start_key + step, start_key + 2 * step, ... below end_key, with
\* step = ceil((size + 1) / (n + 1)); the checkpoints lie strictly between start_key
\* and end_key, strictly increase, and are at most n.
C10_Original ==
    (fn = "choose_checkpoints" /\ arg.count >= 1 /\ ret.ok) =>
        /\ ret.val = FirstBelow(seg.start_key, seg.end_key, CeilStep, arg.count)
        /\ StrictlyInside(seg, ret.val)

\* C10, amended: the same with step = floor((size + 1) / (n + 1)); when that step
\* is 0 (size < n) the call fails with ValueError instead of returning a list.
C10_Checkpoints ==
    (fn = "choose_checkpoints" /\ arg.count >= 1) =>
        IF FloorStep = 0 THEN ~ret.ok
        ELSE /\ ret.ok
             /\ ret.val = FirstBelow(seg.start_key, seg.end_key, FloorStep, arg.count)
             /\ StrictlyInside(seg, ret.val)

C10_Witness ==
    /\ fn = "choose_checkpoints" /\ arg.count >= 2 /\ ret.ok
    /\ Len(ret.val) = arg.count
    /\ FloorStep # CeilStep

====
